---- MODULE Spec2Model ----
(***************************************************************************)
(* The workstation cleaner (wscleaner): one pass of the script             *)
(* src/wscleaner/__main__.py over a root directory of runfolders, using    *)
(* the classes of src/wscleaner/wscleaner.py (RunFolder,                   *)
(* DxProjectRunFolder, RunFolderManager).                                  *)
(*                                                                         *)
(* The root directory (which directories exist, their modification order,  *)
(* their fastq files) is part of the state.  What the pass reads once per   *)
(* directory (its name and age, RTAComplete.txt, bcl2fastq2_output.log,    *)
(* the answers of the DNAnexus API, the upload log) is an input of the     *)
(* step that reads it, drawn from a small set and kept in the variables of *)
(* that step (rf for find_runfolders, it for the main loop).  The fastq    *)
(* files of a directory are drawn when the pass first lists them and stay  *)
(* as drawn from then on.                                                  *)
(***************************************************************************)
EXTENDS Integers, Sequences, FiniteSets, TLC

(***************************************************************************)
(* Bounds and program constants                                            *)
(***************************************************************************)
\* ages of directories range over MinAge - AgeSpan .. MinAge + AgeSpan days
AgeSpan == 1
\* a project holds at most this many files whose name matches 'fastq.gz'
MaxRemoteFiles == 2
\* --min-age default
MinAge == 14
\* --logfile-count default
LogfileCount == 6
\* the upload agent is given at most this many files per command
ChunkSize == 500
\* the Data folder of the large runfolder holds at most this many files
MaxFiles == 1001
\* the folders of the small runfolders hold at most this many numbered files
SmallFiles == 2
\* one numbered file in this many is a text file
FifthFile == 5

\* the directories of the root directory, in the order iterdir() yields them
Dirs == {1, 2}
NDirs == Cardinality(Dirs)
Ages == (MinAge - AgeSpan) .. (MinAge + AgeSpan)
FastqNames == {"a.fastq.gz", "b.fastq.gz"}
None == "None"

(***************************************************************************)
(* Directory names: sequences of characters.  The d-th directory of the    *)
(* root carries one of three names, all ending in its own number.          *)
(***************************************************************************)
Digits == {"0", "1", "2", "3", "4", "5", "6", "7", "8", "9"}
RunfolderName(d) == <<"2", "4", "0", "1", "0", "1", "_", ToString(d)>>
ShortDateName(d) == <<"2", "4", "0", "1", "0", "_", ToString(d)>>
OtherName(d) == <<"l", "o", "g", "s", ToString(d)>>
DirNames(d) == {RunfolderName(d), ShortDateName(d), OtherName(d)}

(***************************************************************************)
(* Text files: [exists, lines]; a line is a sequence of tokens.            *)
(***************************************************************************)
NoFile == [exists |-> FALSE, lines |-> <<>>]
File(lines) == [exists |-> TRUE, lines |-> lines]

TSOLine == <<"TSO500 run.", "no demultiplexing", "\n">>
BclLine == <<"Processing completed", "\n">>
\* bcl2fastq2_output.log
BclLogs == {NoFile, File(<<>>), File(<<BclLine>>), File(<<TSOLine>>),
            File(<<TSOLine, BclLine>>), File(<<BclLine, TSOLine>>)}

InfoLine == <<"2024-01-01", "- INFO -", "uploaded", "\n">>
ErrorLine == <<"2024-01-01", "- ERROR -", "upload failed", "\n">>
\* a last line without line terminator that is the marker and nothing else
BareMarker == <<"- ERROR -">>
\* <runfolder>_upload_runfolder.log
UploadLogs == {NoFile, File(<<InfoLine>>), File(<<InfoLine, ErrorLine>>),
               File(<<InfoLine, BareMarker>>)}

(***************************************************************************)
(* Answers of the DNAnexus API                                             *)
(***************************************************************************)
\* projects whose name contains the runfolder name
Projects == {[id |-> "project-1", name |-> <<"002_", "runfolder">>],
             [id |-> "project-2", name |-> <<"002_", "runfolder", "_TSO">>]}
\* dxpy.find_one_project searches by name: the projects that match, in some order
SearchResponses ==
    {<<>>} \cup {<<p>> : p \in Projects}
    \cup {<<pq[1], pq[2]>> : pq \in {x \in Projects \X Projects : x[1].id = "project-1" /\ x[2].id = "project-2"}}
\* a project's data objects whose name matches 'fastq.gz'
RemoteFiles == [name : FastqNames, state : {"open", "closing", "closed"}]
RemoteListings == {l \in SUBSET RemoteFiles : Cardinality(l) <= MaxRemoteFiles}
\* number of files in the project's logfile folder
RemoteLogfileCounts == (LogfileCount - 1) .. (LogfileCount + 1)

VARIABLES
    dry_run,          \* RunFolderManager.__dry_run
    fs,               \* the root: per directory, presence, mtime rank, fastq files
    pc,               \* position of the script
    error,            \* the exception that ended the script, if one did
    directory_list,   \* find_runfolders: sorted subdirectories
    i,                \* find_runfolders: index of the next directory
    rf,               \* find_runfolders: what was read of the last directory looked at
    local_runfolders, \* the list returned by find_runfolders (runfolder_objects)
    j,                \* main loop: index of the next runfolder
    it,               \* main loop: what the last iteration read and computed
    deleted,          \* RunFolderManager.deleted
    logged,           \* WARNING messages of the last step: <<runfolder name, message>>
    called,           \* the DNAnexus queries and the rmtree of the last step, in order
    env,              \* what each directory and its project hold, when fixed in advance
    pass,             \* the invocation of the script that is running: first or second
    first,            \* what the first invocation returned and decided
    verdicts,         \* what this invocation decided for each runfolder so far
    calls,            \* every DNAnexus query and rmtree of this invocation, in order
    ignore,           \* backup_runfolder: self.ignore, split at the commas
    tree,             \* backup_runfolder: the runfolder on disk, folders and files
    w,                \* call_upload_agent: index of the next directory of os.walk
    file_dict,        \* call_upload_agent: file_dict, in insertion order
    ua_pc,            \* call_upload_agent: position
    path_index,       \* call_upload_agent: index of the next path of file_dict
    iterations_needed, \* call_upload_agent: number of commands for this path
    iteration_count,  \* call_upload_agent: number of the next command
    start,            \* call_upload_agent: slice of the file list
    stop,
    commands          \* the upload agent commands issued, in order

\* the variables that follow the script over two invocations on one environment
run_vars == <<env, pass, first, verdicts, calls>>

\* the variables of wscleaner
ws_vars == <<dry_run, fs, pc, error, directory_list, i, rf, local_runfolders, j, it,
             deleted, logged, called, env, pass, first, verdicts, calls>>

\* the variables of backup_runfolder.py
ua_vars == <<ignore, tree, w, file_dict, ua_pc, path_index, iterations_needed,
             iteration_count, start, stop, commands>>

vars == <<ws_vars, ua_vars>>

(***************************************************************************)
(* RunFolder and DxProjectRunFolder                                        *)
(***************************************************************************)
Last(s) == s[Len(s)]

\* re.compile("^[0-9]{6}.*$").match(directory.name)
MatchesSixDigits(name) ==
    /\ Len(name) >= 6
    /\ \A k \in 1 .. 6 : name[k] \in Digits

\* line.startswith(prefix), the prefix being one token
StartsWith(line, prefix) == Len(line) >= 1 /\ line[1] = prefix

\* substring in project name, the substring being one token
Contains(name, token) == \E k \in 1 .. Len(name) : name[k] = token

\* dxpy.find_one_project(more_ok=False, zero_ok=False): what it raises.  Unless
\* exactly one project matches it raises DXSearchError; a service failure raises
\* another dxpy error.
find_one_project_raises(response, fault) ==
    IF fault = "find_one_project" THEN "DXError"
    ELSE IF Len(response) # 1 THEN "DXSearchError"
    ELSE None

\* mutant: the except clause catches nothing
Caught_nothing(exc) == FALSE

\* except dxpy.exceptions.DXSearchError
Caught(exc) == exc = "DXSearchError"

\* DxProjectRunFolder.__dx_find_one_project: the id it returns and what escapes it
dx_find_one_project(response, fault) ==
    LET exc == find_one_project_raises(response, fault)
    IN  IF exc = None THEN [id |-> response[1].id, raised |-> None, warned |-> FALSE]
        ELSE IF Caught(exc) THEN [id |-> None, raised |-> None, warned |-> TRUE]
        ELSE [id |-> None, raised |-> exc, warned |-> FALSE]

\* mutant: a DxProjectRunFolder is truthy once it was constructed
dx_project_bool_constructed(id) == id = None \/ id # None

\* mutant: every DxProjectRunFolder is truthy
dx_project_bool_always(id) == TRUE

\* DxProjectRunFolder.__bool__
dx_project_bool(id) == id # None

\* mutant: the state of the files is not looked at
dx_find_fastqs_any_state(listing) == {f.name : f \in listing}

\* DxProjectRunFolder.find_fastqs: names of the files whose state is 'closed'
dx_find_fastqs(listing) ==
    {f.name : f \in {g \in listing : g.state = "closed"}}

\* mutant: no runfolder is taken for a TSO500 run
TSO500_check_never(bcl, id, nexus_project_name) == FALSE

\* RunFolder.TSO500_check, given a log file that has a last line
TSO500_check(bcl, id, nexus_project_name) ==
    IF bcl.exists
    THEN LET logfile_check == StartsWith(Last(bcl.lines), "TSO500 run.")
             project_name == id # None /\ Contains(nexus_project_name, "_TSO")
         IN  project_name /\ logfile_check
    ELSE FALSE

(***************************************************************************)
(* RunFolderManager                                                        *)
(***************************************************************************)
\* mutant: one local fastq found in the project is enough
check_fastqs_any(dx_fastqs, local_fastqs) ==
    local_fastqs = {} \/ \E fastq \in local_fastqs : fastq \in dx_fastqs

\* check_fastqs: every local fastq is among the project's closed fastqs
check_fastqs(dx_fastqs, local_fastqs) ==
    \A fastq \in local_fastqs : fastq \in dx_fastqs

\* sorted(fastq_filenames_unsorted): the names of S in ascending order
NameOrder == <<"a.fastq.gz", "b.fastq.gz">>
sorted(S) == SelectSeq(NameOrder, LAMBDA n : n \in S)

\* mutant: the loop is left at the first missing fastq
RECURSIVE missing_logged_first(_, _, _)
missing_logged_first(local_fastqs, dx_fastqs, k) ==
    IF k > Len(local_fastqs) THEN {}
    ELSE IF local_fastqs[k] \notin dx_fastqs THEN {local_fastqs[k]}
    ELSE missing_logged_first(local_fastqs, dx_fastqs, k + 1)

\* check_fastqs, the loop over local_fastqs from its k-th element on: the names
\* logged by "Fastq missing from DNAnexus project: {fastq}"
RECURSIVE missing_logged(_, _, _)
missing_logged(local_fastqs, dx_fastqs, k) ==
    IF k > Len(local_fastqs) THEN {}
    ELSE (IF local_fastqs[k] \notin dx_fastqs THEN {local_fastqs[k]} ELSE {})
         \cup missing_logged(local_fastqs, dx_fastqs, k + 1)

\* mutant: at least logfile_count logfiles
check_logfiles_at_least(dx_logfiles, logfile_count) == dx_logfiles >= logfile_count

\* check_logfiles
check_logfiles(dx_logfiles, logfile_count) == dx_logfiles = logfile_count

\* upload_log_exists
upload_log_exists(upload_log) == upload_log.exists

\* check_upload_log: "- ERROR -" in f.readlines(), a test on whole lines
check_upload_log(upload_log) ==
    ~ (\E k \in 1 .. Len(upload_log.lines) : upload_log.lines[k] = <<"- ERROR -">>)

\* the name of the project that dxpy.describe(id) answers with
ProjectName(id) ==
    IF \E p \in Projects : p.id = id
    THEN (CHOOSE p \in Projects : p.id = id).name
    ELSE <<>>

\* a project name with the runfolder name it contains written out
RECURSIVE Expand(_, _)
Expand(tokens, runfolder) ==
    IF tokens = <<>> THEN <<>>
    ELSE (IF Head(tokens) = "runfolder" THEN runfolder ELSE <<Head(tokens)>>)
         \o Expand(Tail(tokens), runfolder)

\* the folder of a call that names none
NoFolder == [runfolder |-> <<>>, subfolder |-> ""]

\* mutant, lib.py: uploaded_runfolder = dxpy.describe(self.id)['name'][4:];
\* logfile_dir = str(Path('/', uploaded_runfolder, 'Logfiles'))
logfile_dir_of_project(runfolder, project_name) ==
    [runfolder |-> Expand(Tail(project_name), runfolder), subfolder |-> "Logfiles"]

\* logfile_dir = os.path.join("/", self.runfolder, "automated_scripts_logfiles")
logfile_dir(runfolder, project_name) ==
    [runfolder |-> runfolder, subfolder |-> "automated_scripts_logfiles"]

\* a call of dxpy or shutil made for directory d
Call(d, call, project, folder) ==
    [dir |-> d, call |-> call, project |-> project, folder |-> folder]

(***************************************************************************)
(* The state after RunFolderManager(args.runfolders_dir, dry_run)          *)
(***************************************************************************)
\* find_runfolders before it has looked at a directory
NoRunFolder ==
    [dir |-> 0, name |-> <<>>, age |-> MinAge + AgeSpan, matches |-> 0,
     constructed |-> FALSE, RTA_complete_exists |-> FALSE, id |-> None, bcl |-> NoFile,
     nexus_project_name |-> <<>>, tso_called |-> FALSE, tso |-> FALSE,
     appended |-> FALSE]

\* the main loop before its first iteration
NoIteration ==
    [dir |-> 0, name |-> <<>>, tso |-> FALSE, dx_project |-> FALSE, listing |-> {}, dx_fastqs |-> {},
     local_fastqs |-> {}, missing |-> {}, fastqs_uploaded |-> FALSE, dx_logfiles |-> 0,
     logfiles_uploaded |-> FALSE, upload_log |-> NoFile, upload_log_exists |-> FALSE,
     checked |-> FALSE, delete_called |-> FALSE]

\* a directory whose fastq files have not been listed yet
Unlisted(rank) == [present |-> TRUE, mtime |-> rank, listed |-> FALSE, fastqs |-> {}]

\* what a directory and its project hold: the answers to every read of a pass
NoEnv ==
    [name |-> <<>>, age |-> MinAge, rta |-> FALSE, response |-> <<>>,
     find_fault |-> "none", bcl |-> NoFile, fastqs |-> {}, listing |-> {}, count |-> 0,
     upload_log |-> NoFile, fault |-> "none"]

\* no invocation has ended yet
NoPass == [candidates |-> <<>>, verdicts |-> <<>>]

\* the state after RunFolderManager(args.runfolders_dir, dry_run=args.dry_run)
Constructed ==
    /\ dry_run \in BOOLEAN
    /\ \E rank \in [Dirs -> 1 .. NDirs] :
          /\ \A a, b \in Dirs : a # b => rank[a] # rank[b]
          /\ fs = [d \in Dirs |-> Unlisted(rank[d])]
    /\ pc = "start"
    /\ error = None
    /\ directory_list = <<>>
    /\ i = 1
    /\ rf = NoRunFolder
    /\ local_runfolders = <<>>
    /\ j = 1
    /\ it = NoIteration
    /\ deleted = <<>>
    /\ logged = {}
    /\ called = <<>>
    /\ pass = 1
    /\ first = NoPass
    /\ verdicts = <<>>
    /\ calls = <<>>

\* backup_runfolder.py is not running
NotUploading ==
    /\ ignore = <<>>
    /\ tree = <<>>
    /\ w = 1
    /\ file_dict = <<>>
    /\ ua_pc = "idle"
    /\ path_index = 1
    /\ iterations_needed = 0
    /\ iteration_count = 1
    /\ start = 0
    /\ stop = 0
    /\ commands = <<>>

\* one invocation; each read of the environment is answered when it happens
Init ==
    /\ Constructed
    /\ NotUploading
    /\ env = [d \in Dirs |-> NoEnv]

(***************************************************************************)
(* find_runfolders                                                         *)
(***************************************************************************)
\* mutant: the most recently modified directory comes first
SortedByMtime_reversed ==
    LET present == {d \in Dirs : fs[d].present}
        n == Cardinality(present)
    IN  CHOOSE s \in [1 .. n -> present] :
            /\ \A a, b \in 1 .. n : a # b => s[a] # s[b]
            /\ \A a, b \in 1 .. n : a < b => fs[s[a]].mtime > fs[s[b]].mtime

\* mutant: the directories are left in the order iterdir() yields them
SortedByMtime_unsorted ==
    LET present == {d \in Dirs : fs[d].present}
        n == Cardinality(present)
    IN  CHOOSE s \in [1 .. n -> present] :
            /\ \A a, b \in 1 .. n : a # b => s[a] # s[b]
            /\ \A a, b \in 1 .. n : a < b => s[a] < s[b]

\* directory_list.sort(key=lambda subdir: subdir.stat().st_mtime)
SortedByMtime ==
    LET present == {d \in Dirs : fs[d].present}
        n == Cardinality(present)
    IN  CHOOSE s \in [1 .. n -> present] :
            /\ \A a, b \in 1 .. n : a # b => s[a] # s[b]
            /\ \A a, b \in 1 .. n : a < b => fs[s[a]].mtime < fs[s[b]].mtime

\* directory_list = [subdirectories]; directory_list.sort(key=mtime)
ListDirectories ==
    /\ pc = "start"
    /\ directory_list' = SortedByMtime
    /\ pc' = "find"
    /\ logged' = {}
    /\ called' = <<>>
    /\ UNCHANGED <<dry_run, fs, error, i, rf, local_runfolders, j, it, deleted>>
    /\ UNCHANGED run_vars
    /\ UNCHANGED ua_vars

\* mutant: no directory is skipped
skip_incomplete_never(RTA_complete_exists) == FALSE

\* if not rf.RTA_complete_exists: the directory is skipped
skip_incomplete(RTA_complete_exists) == ~ RTA_complete_exists

\* mutant: the age is not compared
old_enough_always(rf_age, min_age) == TRUE

\* mutant: off by one day
old_enough_off_by_one(rf_age, min_age) == rf_age + 1 >= min_age

\* rf.age >= min_age
old_enough(rf_age, min_age) == rf_age >= min_age

\* mutant: every runfolder that is old enough is a candidate
is_candidate_when_old(rf_age, min_age, tso, fastq_count) == old_enough(rf_age, min_age)

\* the candidate test of find_runfolders on a RunFolder that has RTAComplete.txt:
\* tso is what TSO500_check returns, fastq_count what find_fastqs(count=True) returns
is_candidate(rf_age, min_age, tso, fastq_count) ==
    \/ (old_enough(rf_age, min_age) /\ tso)
    \/ (old_enough(rf_age, min_age) /\ fastq_count > 0)

\* One iteration of the loop of find_runfolders over directory d, whose name is
\* `name` and whose age is rf_age; rta, response, bcl, fastqs are what the
\* filesystem and DNAnexus answer, fault names the remote call that fails, if one
\* does.  Yields the new rf, the exception that escapes (None: none), the warnings
\* logged and whether the fastq files were counted.
examine(d, name, rf_age, rta, response, bcl, fastqs, fault, min_age) ==
    LET found == dx_find_one_project(response, fault)
        id == found.id
        base == [NoRunFolder EXCEPT !.dir = d, !.name = name, !.age = rf_age]
        searched == [base EXCEPT !.matches = Len(response)]
        made == [searched EXCEPT !.constructed = TRUE, !.RTA_complete_exists = rta,
                                 !.id = id]
        warn == IF found.warned THEN {<<name, "DX PROJECT MISMATCH">>} ELSE {}
        tso_reached == ~ skip_incomplete(rta) /\ old_enough(rf_age, min_age)
        describe_reached == tso_reached /\ bcl.exists /\ bcl.lines # <<>> /\ id # None
        pname == IF describe_reached THEN response[1].name ELSE <<>>
        tso == TSO500_check(bcl, id, pname)
        quiet == [rf |-> base, raised |-> None, warn |-> {}, counted |-> FALSE,
                  calls |-> <<>>]
        search == <<Call(d, "find_one_project", None, NoFolder)>>
        describe == IF describe_reached THEN <<Call(d, "describe", id, NoFolder)>>
                    ELSE <<>>
    IN  IF ~ MatchesSixDigits(name)
        THEN quiet
        ELSE IF found.raised # None
        THEN [quiet EXCEPT !.rf = searched, !.raised = found.raised, !.calls = search]
        ELSE IF skip_incomplete(rta)
        THEN [quiet EXCEPT !.rf = made, !.warn = warn, !.calls = search]
        ELSE IF ~ tso_reached
        THEN [quiet EXCEPT !.rf = made, !.warn = warn, !.calls = search]
        ELSE IF bcl.exists /\ bcl.lines = <<>>
        THEN [quiet EXCEPT !.rf = [made EXCEPT !.bcl = bcl, !.tso_called = TRUE],
                           !.raised = "IndexError", !.warn = warn, !.calls = search]
        ELSE IF describe_reached /\ fault = "describe"
        THEN [quiet EXCEPT !.rf = [made EXCEPT !.bcl = bcl, !.tso_called = TRUE],
                           !.raised = "DXError", !.warn = warn,
                           !.calls = search \o describe]
        ELSE [quiet EXCEPT !.rf = [made EXCEPT !.bcl = bcl, !.tso_called = TRUE,
                                       !.nexus_project_name = pname, !.tso = tso,
                                       !.appended = is_candidate(rf_age, min_age, tso,
                                                                 Cardinality(fastqs))],
                           !.warn = warn, !.counted = ~ tso,
                           !.calls = search \o describe]

FindFaults == {"none", "find_one_project", "describe"}

\* the RunFolder object kept in runfolder_objects
RunFolderObject(r) ==
    [dir |-> r.dir, name |-> r.name, RTA_complete_exists |-> r.RTA_complete_exists,
     id |-> r.id, tso |-> r.tso]

\* the fastq files a directory can be found to hold, given what was seen of it
FastqsOf(d) == IF fs[d].listed THEN {fs[d].fastqs} ELSE SUBSET FastqNames

\* the values an input ranges over: S where the step reads it, a default where not
ReadIf(read, S, default) == IF read THEN S ELSE {default}

\* find_runfolders(min_age=args.min_age): one iteration of its loop.  Directories
\* come oldest first, so none is older than the one before it.
FindStepOn(name, rf_age, rta, response, fault, bcl, fastqs) ==
    LET d == directory_list[i]
        out == examine(d, name, rf_age, rta, response, bcl, fastqs, fault, MinAge)
    IN  /\ rf' = out.rf
        /\ logged' = out.warn
        /\ called' = out.calls
        /\ error' = out.raised
        /\ pc' = IF out.raised = None THEN "find" ELSE "crashed"
        /\ i' = IF out.raised = None THEN i + 1 ELSE i
        /\ fs' = IF out.counted
                 THEN [fs EXCEPT ![d].listed = TRUE, ![d].fastqs = fastqs]
                 ELSE fs
        /\ local_runfolders' = IF out.rf.appended
                               THEN Append(local_runfolders, RunFolderObject(out.rf))
                               ELSE local_runfolders
        /\ UNCHANGED <<dry_run, directory_list, j, it, deleted>>

\* the iteration of find_runfolders, its reads answered as they happen
FindStep ==
    /\ pc = "find"
    /\ i <= Len(directory_list)
    /\ \E name \in DirNames(directory_list[i]), rf_age \in {a \in Ages : a <= rf.age} :
       \E rta \in ReadIf(MatchesSixDigits(name), BOOLEAN, FALSE),
          response \in ReadIf(MatchesSixDigits(name), SearchResponses, <<>>),
          fault \in ReadIf(MatchesSixDigits(name), FindFaults, "none") :
       \E bcl \in ReadIf(fault # "find_one_project" /\ ~ skip_incomplete(rta)
                             /\ old_enough(rf_age, MinAge), BclLogs, NoFile),
          fastqs \in ReadIf(fault # "find_one_project" /\ ~ skip_incomplete(rta)
                                /\ old_enough(rf_age, MinAge),
                            FastqsOf(directory_list[i]), {}) :
          FindStepOn(name, rf_age, rta, response, fault, bcl, fastqs)
    /\ UNCHANGED run_vars
    /\ UNCHANGED ua_vars

\* return runfolder_objects: the locals of find_runfolders are gone
FindReturn ==
    /\ pc = "find"
    /\ i > Len(directory_list)
    /\ pc' = "loop"
    /\ rf' = NoRunFolder
    /\ directory_list' = <<>>
    /\ i' = 1
    /\ logged' = {}
    /\ called' = <<>>
    /\ UNCHANGED <<dry_run, fs, error, local_runfolders, j, it, deleted>>
    /\ UNCHANGED run_vars
    /\ UNCHANGED ua_vars

(***************************************************************************)
(* The main loop of __main__.py                                            *)
(***************************************************************************)
\* mutant: delete never reaches shutil.rmtree
RemovesTree_never(dry) == FALSE

\* mutant: delete reaches shutil.rmtree in a dry run too
RemovesTree_always(dry) == TRUE

\* RunFolderManager.delete reaches shutil.rmtree
RemovesTree(dry) == ~ dry

\* mutant: the name is appended before dry_run is tested
RecordsDeleted_always(dry) == TRUE

\* RunFolderManager.delete appends to self.deleted
RecordsDeleted(dry) == ~ dry

\* if fastqs_uploaded and logfiles_uploaded: RFM.delete(runfolder)
delete_decided(fastqs_ok, logfiles_ok, log_exists) == fastqs_ok /\ logfiles_ok

\* the warnings of the else branch for a runfolder that is not deleted
verdict_warnings(name, fastqs_ok, logfiles_ok, upload_log) ==
    (IF ~ fastqs_ok THEN {<<name, "FASTQ MISMATCH">>} ELSE {})
    \cup (IF ~ logfiles_ok THEN {<<name, "LOGFILE MISMATCH">>} ELSE {})
    \cup (IF ~ upload_log_exists(upload_log)
          THEN {<<name, "UPLOAD LOG MISSING">>}
          ELSE IF ~ check_upload_log(upload_log)
               THEN {<<name, "UPLOAD LOG CONTAINS ERRORS">>}
               ELSE {})

ProcessFaults == {"none", "find_fastqs", "count_logfiles", "rmtree"}

\* One iteration of the main loop over `runfolder`; listing, local_fastqs, count,
\* upload_log are what DNAnexus, the runfolder and the log directory answer, fault
\* names the call that raises, if one does.  Yields the new it, the exception that
\* escapes, the warnings logged, whether the local fastqs were listed, whether the
\* name was appended to deleted and whether the tree was removed.
process(runfolder, listing, local_fastqs, count, upload_log, fault, logfile_count, dry) ==
    LET base == [NoIteration EXCEPT !.dir = runfolder.dir, !.name = runfolder.name,
                                    !.tso = runfolder.tso,
                                    !.dx_project = dx_project_bool(runfolder.id)]
        dx_fastqs == dx_find_fastqs(listing)
        fastqs_ok == check_fastqs(dx_fastqs, local_fastqs)
        with_fastqs == [base EXCEPT !.listing = listing, !.dx_fastqs = dx_fastqs,
                                    !.local_fastqs = local_fastqs,
                                    !.missing = missing_logged(sorted(local_fastqs),
                                                               dx_fastqs, 1),
                                    !.fastqs_uploaded = fastqs_ok]
        logfiles_ok == check_logfiles(count, logfile_count)
        log_exists == upload_log_exists(upload_log)
        checked == [with_fastqs EXCEPT !.dx_logfiles = count,
                                       !.logfiles_uploaded = logfiles_ok,
                                       !.upload_log = upload_log,
                                       !.upload_log_exists = log_exists,
                                       !.checked = TRUE]
        quiet == [it |-> base, raised |-> None, warn |-> {}, listed |-> FALSE,
                  recorded |-> FALSE, removed |-> FALSE, calls |-> <<>>]
        listed == <<Call(runfolder.dir, "find_fastqs", runfolder.id, NoFolder)>>
        counted == <<Call(runfolder.dir, "count_logfiles", runfolder.id,
                          logfile_dir(runfolder.name, ProjectName(runfolder.id)))>>
        removal == IF RemovesTree(dry)
                   THEN <<Call(runfolder.dir, "rmtree", runfolder.id, NoFolder)>>
                   ELSE <<>>
    IN  IF ~ dx_project_bool(runfolder.id)
        THEN quiet
        ELSE IF fault = "find_fastqs"
        THEN [quiet EXCEPT !.raised = "DXError", !.calls = listed]
        ELSE IF fault = "count_logfiles"
        THEN [quiet EXCEPT !.it = with_fastqs, !.raised = "DXError", !.listed = TRUE,
                           !.calls = listed \o counted]
        ELSE IF delete_decided(fastqs_ok, logfiles_ok, log_exists)
        THEN IF RemovesTree(dry) /\ fault = "rmtree"
             THEN [quiet EXCEPT !.it = [checked EXCEPT !.delete_called = TRUE],
                                !.raised = "OSError", !.listed = TRUE,
                                !.recorded = RecordsDeleted(dry),
                                !.calls = listed \o counted \o removal]
             ELSE [quiet EXCEPT !.it = [checked EXCEPT !.delete_called = TRUE],
                                !.listed = TRUE,
                                !.recorded = RecordsDeleted(dry),
                                !.removed = RemovesTree(dry),
                                !.calls = listed \o counted \o removal]
        ELSE [quiet EXCEPT !.it = checked, !.listed = TRUE,
                           !.warn = verdict_warnings(runfolder.name, fastqs_ok,
                                                     logfiles_ok, upload_log),
                           !.calls = listed \o counted]

\* mutant: the loop is left at the first runfolder that is not deleted
after_iteration_break(raised, delete_called) ==
    IF raised # None THEN "crashed" ELSE IF delete_called THEN "loop" ELSE "end"

\* where the script is after the body of the loop: back at the for statement,
\* unless an exception escaped
after_iteration(raised, delete_called) ==
    IF raised = None THEN "loop" ELSE "crashed"

\* shutil.rmtree(runfolder.path)
rmtree(d) == [fs EXCEPT ![d].present = FALSE, ![d].listed = TRUE, ![d].fastqs = {}]

\* for runfolder in local_runfolders: the next runfolder is bound
LoopHead ==
    /\ pc = "loop"
    /\ j <= Len(local_runfolders)
    /\ it' = [NoIteration EXCEPT !.dir = local_runfolders[j].dir,
                                 !.name = local_runfolders[j].name,
                                 !.tso = local_runfolders[j].tso]
    /\ pc' = "body"
    /\ logged' = {}
    /\ called' = <<>>
    /\ UNCHANGED <<dry_run, fs, error, directory_list, i, rf, local_runfolders, j, deleted>>
    /\ UNCHANGED run_vars
    /\ UNCHANGED ua_vars

\* the body of the main loop for local_runfolders[j]
ProcessStepOn(listing, local_fastqs, count, upload_log, fault) ==
    LET runfolder == local_runfolders[j]
        d == runfolder.dir
        out == process(runfolder, listing, local_fastqs, count, upload_log, fault,
                       LogfileCount, dry_run)
    IN  /\ it' = out.it
        /\ logged' = out.warn
        /\ called' = out.calls
        /\ error' = out.raised
        /\ pc' = after_iteration(out.raised, out.it.delete_called)
        /\ j' = IF out.raised = None THEN j + 1 ELSE j
        /\ deleted' = IF out.recorded THEN Append(deleted, runfolder.name)
                      ELSE deleted
        /\ fs' = IF out.removed THEN rmtree(d)
                 ELSE IF out.listed
                 THEN [fs EXCEPT ![d].listed = TRUE, ![d].fastqs = local_fastqs]
                 ELSE fs
        /\ UNCHANGED <<dry_run, directory_list, i, rf, local_runfolders>>

\* the body of the main loop, its reads answered as they happen
ProcessStep ==
    /\ pc = "body"
    /\ \E fault \in ReadIf(dx_project_bool(local_runfolders[j].id), ProcessFaults, "none") :
       \E listing \in ReadIf(dx_project_bool(local_runfolders[j].id)
                             /\ fault # "find_fastqs", RemoteListings, {}),
          local_fastqs \in ReadIf(dx_project_bool(local_runfolders[j].id)
                                  /\ fault # "find_fastqs",
                                  FastqsOf(local_runfolders[j].dir), {}) :
       \E count \in ReadIf(dx_project_bool(local_runfolders[j].id)
                           /\ fault \notin {"find_fastqs", "count_logfiles"},
                           RemoteLogfileCounts, 0),
          upload_log \in ReadIf(dx_project_bool(local_runfolders[j].id)
                                /\ fault \notin {"find_fastqs", "count_logfiles"},
                                UploadLogs, NoFile) :
          ProcessStepOn(listing, local_fastqs, count, upload_log, fault)
    /\ UNCHANGED run_vars
    /\ UNCHANGED ua_vars

\* logger.info("Runfolders deleted in this instance"); logger.info("END"):
\* the loop is over and its variables are not read again
Finish ==
    /\ pc = "loop"
    /\ j > Len(local_runfolders)
    /\ pc' = "end"
    /\ it' = NoIteration
    /\ logged' = {}
    /\ called' = <<>>
    /\ UNCHANGED <<dry_run, fs, error, directory_list, i, rf, local_runfolders, j, deleted>>
    /\ UNCHANGED run_vars
    /\ UNCHANGED ua_vars

Next ==
    \/ ListDirectories
    \/ FindStep
    \/ FindReturn
    \/ LoopHead
    \/ ProcessStep
    \/ Finish

Spec == Init /\ [][Next]_vars

(***************************************************************************)
(* Two invocations of the script on an environment that does not change:   *)
(* what each directory and its project hold is fixed before the first      *)
(* invocation and every read of a pass is answered from it.                *)
(***************************************************************************)
\* Scenario A: a complete runfolder, old enough, one project, its fastq uploaded
\* and closed, the expected number of logfiles, an upload log without errors
ScenarioA(d) ==
    [name |-> RunfolderName(d), age |-> MinAge, rta |-> TRUE,
     response |-> <<[id |-> "project-1", name |-> <<"002_", "runfolder">>]>>,
     find_fault |-> "none", bcl |-> File(<<BclLine>>), fastqs |-> {"a.fastq.gz"},
     listing |-> {[name |-> "a.fastq.gz", state |-> "closed"]},
     count |-> LogfileCount, upload_log |-> File(<<InfoLine>>), fault |-> "none"]

\* Scenario B: a and b local, only a in the project
ScenarioB(d) == [ScenarioA(d) EXCEPT !.fastqs = {"a.fastq.gz", "b.fastq.gz"}]

\* Scenario C: two projects match the name
ScenarioC(d) ==
    [ScenarioA(d) EXCEPT !.response = <<[id |-> "project-1", name |-> <<"002_", "runfolder">>],
                                        [id |-> "project-2", name |-> <<"002_", "runfolder", "_TSO">>]>>]

\* Scenario D: a TSO500 runfolder without fastqs
ScenarioD(d) ==
    [ScenarioA(d) EXCEPT !.response = <<[id |-> "project-2", name |-> <<"002_", "runfolder", "_TSO">>]>>,
                         !.bcl = File(<<BclLine, TSOLine>>), !.fastqs = {}, !.listing = {}]

\* every reason to keep the runfolder at once
ScenarioKept(d) ==
    [ScenarioB(d) EXCEPT !.count = LogfileCount - 1, !.upload_log = NoFile]

ScenarioNames == {"A", "B", "C", "D", "Kept"}
Scenario(n, d) ==
    CASE n = "A" -> ScenarioA(d)
      [] n = "B" -> ScenarioB(d)
      [] n = "C" -> ScenarioC(d)
      [] n = "D" -> ScenarioD(d)
      [] OTHER -> ScenarioKept(d)
Scenarios(d) == {Scenario(n, d) : n \in ScenarioNames}

\* the environments that differ from e in what one read answers
Variations(e, d) ==
    {[e EXCEPT !.name = x] : x \in DirNames(d)}
    \cup {[e EXCEPT !.age = x] : x \in Ages}
    \cup {[e EXCEPT !.rta = x] : x \in BOOLEAN}
    \cup {[e EXCEPT !.response = x] : x \in SearchResponses}
    \cup {[e EXCEPT !.find_fault = x] : x \in FindFaults}
    \cup {[e EXCEPT !.bcl = x] : x \in BclLogs}
    \cup {[e EXCEPT !.fastqs = x] : x \in SUBSET FastqNames}
    \cup {[e EXCEPT !.listing = x] : x \in RemoteListings}
    \cup {[e EXCEPT !.count = x] : x \in RemoteLogfileCounts}
    \cup {[e EXCEPT !.upload_log = x] : x \in UploadLogs}
    \cup {[e EXCEPT !.fault = x] : x \in ProcessFaults}

\* the variations of Scenario A, the scenarios, and Scenario D with fastqs
DirEnvs(d) ==
    Variations(ScenarioA(d), d) \cup Scenarios(d)
    \cup {[ScenarioD(d) EXCEPT !.fastqs = x] : x \in SUBSET FastqNames}

\* one directory is any variation of a scenario, the others are scenarios
Environments ==
    UNION {{[d \in Dirs |-> IF d = r THEN x ELSE Scenario(sc[d], d)] :
               x \in DirEnvs(r), sc \in [Dirs -> ScenarioNames]} : r \in Dirs}

\* the environment is fixed; a directory modified earlier is not younger
PassInit ==
    /\ Constructed
    /\ NotUploading
    /\ env \in Environments
    /\ \A a, b \in Dirs : fs[a].mtime < fs[b].mtime => env[a].age >= env[b].age

\* the iteration of find_runfolders, its reads answered by env
PassFindStep ==
    /\ pc = "find"
    /\ i <= Len(directory_list)
    /\ LET e == env[directory_list[i]]
       IN  FindStepOn(e.name, e.age, e.rta, e.response, e.find_fault, e.bcl, e.fastqs)
    /\ calls' = calls \o called'
    /\ UNCHANGED <<env, pass, first, verdicts>>
    /\ UNCHANGED ua_vars

\* the body of the main loop, its reads answered by env; what it decided is kept
PassProcessStep ==
    /\ pc = "body"
    /\ LET e == env[local_runfolders[j].dir]
       IN  ProcessStepOn(e.listing, e.fastqs, e.count, e.upload_log, e.fault)
    /\ verdicts' = Append(verdicts, [name |-> it'.name, checked |-> it'.checked,
                                     delete_called |-> it'.delete_called,
                                     warn |-> logged'])
    /\ calls' = calls \o called'
    /\ UNCHANGED <<env, pass, first>>
    /\ UNCHANGED ua_vars

\* the script is started again: a new RunFolderManager on the same root
Restart ==
    /\ pc = "end"
    /\ pass = 1
    /\ pass' = 2
    /\ first' = [candidates |-> local_runfolders, verdicts |-> verdicts]
    /\ verdicts' = <<>>
    /\ calls' = <<>>
    /\ pc' = "start"
    /\ local_runfolders' = <<>>
    /\ j' = 1
    /\ deleted' = <<>>
    /\ UNCHANGED <<dry_run, fs, error, directory_list, i, rf, it, logged, called, env>>
    /\ UNCHANGED ua_vars

PassNext ==
    \/ ListDirectories
    \/ PassFindStep
    \/ FindReturn
    \/ LoopHead
    \/ PassProcessStep
    \/ Finish
    \/ Restart

\* the script is a sequential program: it keeps running until it ends
PassSpec == PassInit /\ [][PassNext]_vars /\ WF_vars(PassNext)

(***************************************************************************)
(* One invocation while the sequencer still writes: another process adds   *)
(* fastq files to a runfolder between the steps of the script.  env holds  *)
(* what the directories hold now, fs what the script saw of them.          *)
(***************************************************************************)
\* the body of the main loop up to "if fastqs_uploaded and logfiles_uploaded:";
\* when nothing is to be deleted the iteration ends here
RaceCheckStep ==
    /\ pc = "body"
    /\ LET runfolder == local_runfolders[j]
           d == runfolder.dir
           e == env[d]
           out == process(runfolder, e.listing, e.fastqs, e.count, e.upload_log,
                          e.fault, LogfileCount, dry_run)
       IN  IF out.it.delete_called
           THEN /\ pc' = "delete"
                /\ it' = [out.it EXCEPT !.delete_called = FALSE]
                /\ logged' = {}
                /\ called' = SelectSeq(out.calls, LAMBDA c : c.call # "rmtree")
                /\ fs' = [fs EXCEPT ![d].listed = TRUE, ![d].fastqs = e.fastqs]
                /\ UNCHANGED <<dry_run, error, directory_list, i, rf, local_runfolders,
                               j, deleted>>
           ELSE ProcessStepOn(e.listing, e.fastqs, e.count, e.upload_log, e.fault)
    /\ calls' = calls \o called'
    /\ UNCHANGED <<env, pass, first, verdicts>>
    /\ UNCHANGED ua_vars

\* RFM.delete(runfolder), decided on what the checks read
RaceDeleteStep ==
    /\ pc = "delete"
    /\ LET runfolder == local_runfolders[j]
           d == runfolder.dir
           e == env[d]
           out == process(runfolder, e.listing, it.local_fastqs, e.count, e.upload_log,
                          e.fault, LogfileCount, dry_run)
       IN  /\ it' = out.it
           /\ logged' = out.warn
           /\ called' = SelectSeq(out.calls, LAMBDA c : c.call = "rmtree")
           /\ error' = out.raised
           /\ pc' = after_iteration(out.raised, out.it.delete_called)
           /\ j' = IF out.raised = None THEN j + 1 ELSE j
           /\ deleted' = IF out.recorded THEN Append(deleted, runfolder.name)
                         ELSE deleted
           /\ fs' = IF out.removed THEN rmtree(d) ELSE fs
           /\ UNCHANGED <<dry_run, directory_list, i, rf, local_runfolders>>
    /\ calls' = calls \o called'
    /\ UNCHANGED <<env, pass, first, verdicts>>
    /\ UNCHANGED ua_vars

\* another process writes a fastq file into a runfolder that is still there
FastqArrives ==
    /\ pc \in {"find", "loop", "body", "delete"}
    /\ \E d \in Dirs, n \in FastqNames :
          /\ fs[d].present
          /\ n \notin env[d].fastqs
          /\ env' = [env EXCEPT ![d].fastqs = @ \cup {n}]
    /\ UNCHANGED <<dry_run, fs, pc, error, directory_list, i, rf, local_runfolders, j,
                   it, deleted, logged, called, pass, first, verdicts, calls>>
    /\ UNCHANGED ua_vars

RaceNext ==
    \/ ListDirectories
    \/ PassFindStep
    \/ FindReturn
    \/ LoopHead
    \/ RaceCheckStep
    \/ RaceDeleteStep
    \/ FastqArrives
    \/ Finish

RaceSpec == PassInit /\ [][RaceNext]_vars

(***************************************************************************)
(* backup_runfolder.py: UAcaller.call_upload_agent                         *)
(* Names and paths are sequences of parts; a pattern of --ignore is found  *)
(* in a name when it is one of its parts.                                  *)
(***************************************************************************)
\* self.runfolder
Runfolder == <<"runfolder">>
\* self.project
UAProject == <<"002_", "runfolder", "_NGS">>
DataDir == Runfolder \o <<"Data">>
LaneDir == DataDir \o <<"L001">>
ThumbDir == Runfolder \o <<"Thumbnail_Images">>

\* n files of a folder: every FifthFile-th is a text file, the others are bcl files
Numbered(n) ==
    [k \in 1 .. n |-> <<ToString(k), IF k % FifthFile = 0 THEN ".txt" ELSE ".bcl">>]

\* the runfolder: what os.walk and os.listdir answer for each directory
Tree(root_files, data_files, lane_files, thumb_files) ==
    (Runfolder :> [subfolders |-> <<"Data", "Thumbnail_Images">>, files |-> root_files])
    @@ (DataDir :> [subfolders |-> <<"L001">>, files |-> data_files])
    @@ (LaneDir :> [subfolders |-> <<>>, files |-> lane_files])
    @@ (ThumbDir :> [subfolders |-> <<>>, files |-> thumb_files])

\* the values of --ignore: not given, or regular expressions separated by commas
IgnoreOptions == {<<>>, <<".txt">>, <<"Thumbnail_Images">>, <<".txt", "Thumbnail_Images">>}
RootFiles == {<<>>, <<<<"SampleSheet", ".csv">>>>, <<<<"RunInfo", ".xml">>, <<"notes", ".txt">>>>}
ThumbFiles == {<<>>, <<<<"s_1", ".jpg">>>>, <<<<"s_1", ".jpg">>, <<"index", ".txt">>>>}

\* the runfolders uploaded: small ones of every shape, and one whose Data folder
\* holds up to MaxFiles files
Trees ==
    {Tree(r, Numbered(n), Numbered(m), t) :
        r \in RootFiles, n \in 0 .. SmallFiles, m \in 0 .. SmallFiles, t \in ThumbFiles}
    \cup {Tree(<<<<"SampleSheet", ".csv">>>>, Numbered(n), <<>>, <<<<"s_1", ".jpg">>>>) :
              n \in 0 .. MaxFiles}

\* re.search(pattern, string)
re_search(pattern, string) == Contains(string, pattern)

\* any([re.search(pattern, string) for pattern in self.ignore.split(",")])
any_pattern(ign, string) == \E k \in 1 .. Len(ign) : re_search(ign[k], string)

\* list(filter(lambda file: not any([...]), files))
upload_files(ign, files) == SelectSeq(files, LAMBDA file : ~ any_pattern(ign, file))

\* os.walk(self.runfolder): the directories top-down, each before its subfolders
RECURSIVE os_walk(_, _)
RECURSIVE walk_subfolders(_, _, _)
os_walk(t, root) == <<root>> \o walk_subfolders(t, root, 1)
walk_subfolders(t, root, k) ==
    IF k > Len(t[root].subfolders) THEN <<>>
    ELSE os_walk(t, root \o <<t[root].subfolders[k]>>) \o walk_subfolders(t, root, k + 1)

\* file_dict[path] = files: a new key goes last, a known key keeps its place
Put(fd, path, files) ==
    IF \E k \in 1 .. Len(fd) : fd[k].path = path
    THEN [k \in 1 .. Len(fd) |-> IF fd[k].path = path
                                 THEN [path |-> path, files |-> files] ELSE fd[k]]
    ELSE Append(fd, [path |-> path, files |-> files])

\* for folder in subfolders: the files of each subfolder, from the k-th on
RECURSIVE add_subfolders(_, _, _, _, _)
add_subfolders(fd, t, root, ign, k) ==
    IF k > Len(t[root].subfolders) THEN fd
    ELSE LET path == root \o <<t[root].subfolders[k]>>
             file_list == t[path].files
             kept == upload_files(ign, file_list)
             fd1 == IF ign # <<>>
                    THEN IF ~ any_pattern(ign, path) /\ kept # <<>>
                         THEN Put(fd, path, kept)
                         ELSE fd
                    ELSE Put(fd, path, file_list)
         IN  add_subfolders(fd1, t, root, ign, k + 1)

\* the files present in the root of this iteration of os.walk
add_root(fd, t, root, ign) ==
    LET files == t[root].files
        kept == upload_files(ign, files)
    IN  IF ign # <<>>
        THEN IF kept # <<>> THEN Put(fd, root, kept) ELSE fd
        ELSE Put(fd, root, files)

\* mutant: the division rounds down
ceil_floor(n, size) == n \div size

\* math.ceil(len(file_dict[path]) / 500.0)
ceil(n, size) == (n + size - 1) \div size

\* file_dict[path][start:stop]
Slice(files, from, to) ==
    SubSeq(files, from + 1, IF to < Len(files) THEN to ELSE Len(files))

\* get_nexus_filepath(path)[0]: the project name without its first four
\* characters, then the path below the runfolder
get_nexus_filepath(path) ==
    Tail(UAProject) \o SubSeq(path, Len(Runfolder) + 1, Len(path))

\* UAcaller(runfolder, auth_token, project, ignore) before call_upload_agent
UploadInit ==
    /\ Constructed
    /\ ~ dry_run
    /\ \A d \in Dirs : fs[d].mtime = d
    /\ env = [d \in Dirs |-> NoEnv]
    /\ ignore \in IgnoreOptions
    /\ tree \in Trees
    /\ w = 1
    /\ file_dict = <<>>
    /\ ua_pc = "walk"
    /\ path_index = 1
    /\ iterations_needed = 0
    /\ iteration_count = 1
    /\ start = 0
    /\ stop = 0
    /\ commands = <<>>

\* for root, subfolders, files in os.walk(self.runfolder): one iteration
WalkStep ==
    /\ ua_pc = "walk"
    /\ w <= Len(os_walk(tree, Runfolder))
    /\ LET root == os_walk(tree, Runfolder)[w]
       IN  file_dict' = add_root(add_subfolders(file_dict, tree, root, ignore, 1),
                                 tree, root, ignore)
    /\ w' = w + 1
    /\ UNCHANGED <<ignore, tree, ua_pc, path_index, iterations_needed, iteration_count, start,
                   stop, commands>>
    /\ UNCHANGED ws_vars

\* self.logger.info('Files for upload: %s', file_dict)
WalkDone ==
    /\ ua_pc = "walk"
    /\ w > Len(os_walk(tree, Runfolder))
    /\ ua_pc' = "upload"
    /\ UNCHANGED <<ignore, tree, w, file_dict, path_index, iterations_needed, iteration_count,
                   start, stop, commands>>
    /\ UNCHANGED ws_vars

\* for path in file_dict: if file_dict[path]: the variables of the while loop
ForPath ==
    /\ ua_pc = "upload"
    /\ path_index <= Len(file_dict)
    /\ IF file_dict[path_index].files # <<>>
       THEN /\ iterations_needed' = ceil(Len(file_dict[path_index].files), ChunkSize)
            /\ iteration_count' = 1
            /\ start' = 0
            /\ stop' = ChunkSize
            /\ ua_pc' = "while"
            /\ path_index' = path_index
       ELSE /\ path_index' = path_index + 1
            /\ UNCHANGED <<iterations_needed, iteration_count, start, stop, ua_pc>>
    /\ UNCHANGED <<ignore, tree, w, file_dict, commands>>
    /\ UNCHANGED ws_vars

\* while iteration_count <= iterations_needed: one upload agent command
UploadChunk ==
    /\ ua_pc = "while"
    /\ iteration_count <= iterations_needed
    /\ LET path == file_dict[path_index].path
           files == file_dict[path_index].files
           last_stop == IF iteration_count = iterations_needed THEN Len(files) ELSE stop
       IN  /\ commands' = Append(commands,
                                 [path |-> path,
                                  nexus_folder |-> get_nexus_filepath(path),
                                  files |-> Slice(files, start, last_stop)])
           /\ stop' = last_stop + ChunkSize
    /\ iteration_count' = iteration_count + 1
    /\ start' = start + ChunkSize
    /\ UNCHANGED <<ignore, tree, w, file_dict, ua_pc, path_index, iterations_needed>>
    /\ UNCHANGED ws_vars

\* the while loop is left: the next path of file_dict
WhileExit ==
    /\ ua_pc = "while"
    /\ iteration_count > iterations_needed
    /\ ua_pc' = "upload"
    /\ path_index' = path_index + 1
    /\ UNCHANGED <<ignore, tree, w, file_dict, iterations_needed, iteration_count,
                   start, stop, commands>>
    /\ UNCHANGED ws_vars

\* call_upload_agent returns
UploadDone ==
    /\ ua_pc = "upload"
    /\ path_index > Len(file_dict)
    /\ ua_pc' = "done"
    /\ UNCHANGED <<ignore, tree, w, file_dict, path_index, iterations_needed, iteration_count,
                   start, stop, commands>>
    /\ UNCHANGED ws_vars

UploadNext ==
    \/ WalkStep
    \/ WalkDone
    \/ ForPath
    \/ UploadChunk
    \/ WhileExit
    \/ UploadDone

\* call_upload_agent is a sequential method: it keeps running until it returns
UploadSpec == UploadInit /\ [][UploadNext]_vars /\ WF_vars(UploadNext)

(***************************************************************************)
(* Properties                                                              *)
(***************************************************************************)
Candidates == {local_runfolders[k] : k \in 1 .. Len(local_runfolders)}
CandidateDirs == {c.dir : c \in Candidates}
DeletedNames == {deleted[k] : k \in 1 .. Len(deleted)}

\* some line of the log contains the error marker
HasErrorMarker(log) == \E k \in 1 .. Len(log.lines) : Contains(log.lines[k], "- ERROR -")

\* only runfolders returned by find_runfolders are checked, deleted or removed
OnlyCandidatesProcessed ==
    /\ it.dir # 0 => it.dir \in CandidateDirs
    /\ \A n \in DeletedNames : \E c \in Candidates : c.name = n
    /\ \A d \in Dirs : ~ fs[d].present => d \in CandidateDirs

\* C1: delete() is invoked for a runfolder only if the search for its project
\* found exactly one project: a RunFolder gets a project id exactly when one
\* project matched, and only runfolders with a project id are passed to delete(),
\* recorded as deleted or removed.
C1_DeleteOnlyWithUniqueProject ==
    /\ rf.constructed => (rf.id # None <=> rf.matches = 1)
    /\ rf.appended => \E c \in Candidates : c.dir = rf.dir /\ c.id = rf.id
    /\ it.delete_called => \E c \in Candidates : c.dir = it.dir /\ c.id # None
    /\ \A n \in DeletedNames : \E c \in Candidates : c.name = n /\ c.id # None
    /\ \A d \in Dirs : ~ fs[d].present => \E c \in Candidates : c.dir = d /\ c.id # None

\* C1 witness: the pass is over, one candidate without a project was kept and
\* another, with a project, was deleted
C1_Witness ==
    /\ pc = "end"
    /\ \E c \in Candidates : c.id = None /\ c.name \notin DeletedNames /\ fs[c.dir].present
    /\ \E c \in Candidates : c.id # None /\ c.name \in DeletedNames /\ ~ fs[c.dir].present

\* C2: for a candidate that is not a TSO500 runfolder, check_fastqs is true
\* exactly when every local fastq is among the project's fastqs, and when one is
\* not the runfolder is not deleted and FASTQ MISMATCH is logged.
C2_FastqMismatchRetained ==
    (it.checked /\ ~ it.tso) =>
        /\ it.fastqs_uploaded <=> (it.local_fastqs \subseteq it.dx_fastqs)
        /\ ~ (it.local_fastqs \subseteq it.dx_fastqs) =>
              /\ ~ it.delete_called
              /\ it.name \notin DeletedNames
              /\ fs[it.dir].present
              /\ <<it.name, "FASTQ MISMATCH">> \in logged

\* C2 witness: Scenario B, not a dry run: a and b local, only a in the project,
\* the logfile count as expected
C2_Witness ==
    /\ it.checked /\ ~ it.tso /\ ~ dry_run
    /\ it.local_fastqs = {"a.fastq.gz", "b.fastq.gz"}
    /\ it.dx_fastqs = {"a.fastq.gz"}
    /\ it.logfiles_uploaded
    /\ ~ it.fastqs_uploaded
    /\ fs[it.dir].present

\* C3: find_fastqs returns only names of files whose state is 'closed', and a
\* runfolder with a local fastq that has no closed copy in the project is not
\* deleted.
C3_OnlyClosedFastqs ==
    it.checked =>
        /\ \A n \in it.dx_fastqs : \E f \in it.listing : f.name = n /\ f.state = "closed"
        /\ \A n \in it.local_fastqs :
              (~ \E f \in it.listing : f.name = n /\ f.state = "closed") =>
                  /\ ~ it.delete_called
                  /\ it.name \notin DeletedNames
                  /\ fs[it.dir].present

\* C3 witness: the only remote copy of a local fastq is open, everything else
\* would allow the deletion
C3_Witness ==
    /\ it.checked /\ ~ dry_run /\ it.logfiles_uploaded
    /\ it.local_fastqs = {"a.fastq.gz"}
    /\ it.listing = {[name |-> "a.fastq.gz", state |-> "open"]}
    /\ it.dx_fastqs = {}
    /\ ~ it.delete_called

\* C4: a runfolder is deleted only if its project holds exactly the expected
\* number of logfiles; with fewer or more, check_logfiles is false, the runfolder
\* is kept and LOGFILE MISMATCH is logged.
C4_ExactLogfileCount ==
    it.checked =>
        /\ it.logfiles_uploaded <=> (it.dx_logfiles = LogfileCount)
        /\ it.delete_called => it.dx_logfiles = LogfileCount
        /\ it.dx_logfiles # LogfileCount =>
              /\ ~ it.delete_called
              /\ it.name \notin DeletedNames
              /\ fs[it.dir].present
              /\ <<it.name, "LOGFILE MISMATCH">> \in logged

\* C4 witness: one logfile more than expected, the fastqs all uploaded
C4_Witness ==
    /\ it.checked /\ ~ dry_run /\ it.fastqs_uploaded
    /\ it.dx_logfiles = LogfileCount + 1
    /\ ~ it.delete_called

\* C5 (as claimed): a runfolder is deleted only if its upload log exists and
\* holds no line with the error marker.
C5_DeleteOnlyWithCleanUploadLog ==
    it.delete_called => (it.upload_log.exists /\ ~ HasErrorMarker(it.upload_log))

\* C6: in dry-run mode nothing is removed and the deleted list stays empty.
C6_DryRunMutatesNothing ==
    dry_run => (deleted = <<>> /\ \A d \in Dirs : fs[d].present)

\* C6 witness: delete() was called in a dry run
C6_Witness == dry_run /\ it.delete_called /\ fs[it.dir].present

\* C7: a directory without RTAComplete.txt is not returned by find_runfolders,
\* and only returned runfolders are checked or deleted.
C7_IncompleteNeverCandidate ==
    /\ \A c \in Candidates : c.RTA_complete_exists
    /\ (rf.dir # 0 /\ ~ rf.RTA_complete_exists) =>
          (~ rf.appended /\ rf.dir \notin CandidateDirs)
    /\ OnlyCandidatesProcessed

\* C7 witness: a directory named like a runfolder, old enough, with a project,
\* without RTAComplete.txt, was looked at and left out
C7_Witness ==
    /\ rf.constructed /\ ~ rf.RTA_complete_exists
    /\ rf.age > MinAge /\ rf.id # None
    /\ ~ rf.appended

\* C8: a runfolder younger than min_age is not returned by find_runfolders, and
\* only returned runfolders are checked or deleted.
C8_YoungNeverCandidate ==
    /\ (rf.dir # 0 /\ rf.age < MinAge) => (~ rf.appended /\ rf.dir \notin CandidateDirs)
    /\ OnlyCandidatesProcessed

\* C8 witness: a complete runfolder with a project, one day too young, left out
C8_Witness ==
    /\ rf.constructed /\ rf.RTA_complete_exists /\ rf.id # None
    /\ rf.age = MinAge - 1
    /\ ~ rf.appended

C10_AmbiguousResolvesToNone ==
    /\ error # "DXSearchError"
    /\ (rf.dir # 0 /\ MatchesSixDigits(rf.name) /\ rf.matches # 1 /\ error # "DXError") =>
          /\ rf.constructed
          /\ rf.id = None
          /\ <<rf.name, "DX PROJECT MISMATCH">> \in logged
    /\ \A c \in Candidates :
          c.id = None =>
              /\ c.name \notin DeletedNames
              /\ fs[c.dir].present
              /\ it.dir = c.dir => (~ it.checked /\ ~ it.delete_called /\ ~ it.dx_project)

\* C10 witness: Scenario C at the end of the pass: a candidate without a project
\* (two projects matched when it was constructed) was walked over and kept
C10_Witness ==
    /\ pc = "loop" /\ j > 1
    /\ \E c \in Candidates : c.id = None /\ it.dir = c.dir /\ fs[c.dir].present

\* C10 witness of the resolution itself: two projects matched, no id, a warning
C10_ResolutionWitness ==
    /\ rf.constructed /\ rf.matches = 2 /\ rf.id = None /\ rf.appended
    /\ <<rf.name, "DX PROJECT MISMATCH">> \in logged

\* the last line of bcl2fastq2_output.log carries the TSO500 statement
HasTSOTrailer(bcl) ==
    bcl.exists /\ bcl.lines # <<>> /\ StartsWith(Last(bcl.lines), "TSO500 run.")

\* the upload log exists and no line of it contains the error marker
CleanUploadLog(log) == log.exists /\ ~ HasErrorMarker(log)

\* C11 (as claimed): the verdict on a TSO500 runfolder does not depend on its
\* fastq files: when the logfile count is the expected one and the upload log is
\* clean, delete() is called, whatever the local and remote fastqs are.
C11_TSOBypassesFastqCheck ==
    (it.checked /\ it.tso /\ it.dx_logfiles = LogfileCount /\ CleanUploadLog(it.upload_log))
        => it.delete_called

\* C12: Scenario D: a complete, old enough runfolder whose bcl2fastq2_output.log
\* ends with the TSO500 statement and whose only matching project has _TSO in its
\* name is returned by find_runfolders; with no local fastq, the expected logfile
\* count and a clean upload log it is deleted when the run is not a dry run.
C12_ScenarioD ==
    /\ (/\ rf.constructed /\ rf.RTA_complete_exists /\ rf.age >= MinAge
        /\ HasTSOTrailer(rf.bcl)
        /\ rf.matches = 1 /\ Contains(rf.nexus_project_name, "_TSO"))
           => (rf.tso /\ rf.appended /\ rf.dir \in CandidateDirs)
    /\ (/\ it.checked /\ it.tso /\ it.local_fastqs = {}
        /\ it.dx_logfiles = LogfileCount /\ CleanUploadLog(it.upload_log))
           => /\ it.delete_called
              /\ (~ dry_run /\ error = None) =>
                     (it.name \in DeletedNames /\ ~ fs[it.dir].present)

\* C12 witness: Scenario D was found by find_runfolders
C12_FoundWitness ==
    /\ rf.appended /\ rf.tso /\ HasTSOTrailer(rf.bcl)
    /\ Contains(rf.nexus_project_name, "_TSO")

\* C12 witness: Scenario D ran to its end and the runfolder is gone
C12_Witness ==
    /\ ~ dry_run /\ pc = "loop"
    /\ it.checked /\ it.tso /\ it.local_fastqs = {} /\ it.listing = {}
    /\ it.dx_logfiles = LogfileCount /\ CleanUploadLog(it.upload_log)
    /\ it.name \in DeletedNames /\ ~ fs[it.dir].present

\* C13 (as claimed): TSO500_check is true exactly when the last line of the log
\* starts with the TSO500 statement and the project's name contains _TSO; when
\* the log is absent or no project was resolved it is false and nothing is raised.
C13_TSOCheckNeverRaises ==
    /\ (rf.tso_called /\ error = None) =>
          (rf.tso <=> (/\ HasTSOTrailer(rf.bcl)
                       /\ rf.id # None
                       /\ Contains(rf.nexus_project_name, "_TSO")))
    /\ (rf.tso_called /\ (~ rf.bcl.exists \/ rf.id = None)) =>
          (~ rf.tso /\ error = None)

\* C14 (as claimed): a failure of rmtree does not end the pass, and deleted
\* holds only names of runfolders whose directory is gone.
C14_FailedRemovalIsolated ==
    /\ ~ (pc = "crashed" /\ error = "OSError")
    /\ \A n \in DeletedNames : \E c \in Candidates : c.name = n /\ ~ fs[c.dir].present

\* C15 (as claimed): a failure of a remote query for one runfolder does not end
\* the pass.
C15_RemoteFailureDoesNotStopPass == error = "DXError" => pc # "crashed"

\* C17: in a run that is not a dry run, once delete(runfolder) has returned the
\* name is in deleted and the directory is gone; deleted only grows at its end.
C17_DeleteRecordsAndRemoves ==
    /\ []((it.delete_called /\ ~ dry_run /\ error = None) =>
             (/\ it.name \in DeletedNames
              /\ Last(deleted) = it.name
              /\ ~ fs[it.dir].present
              /\ fs[it.dir].fastqs = {}))
    /\ [][/\ Len(deleted') >= Len(deleted)
          /\ SubSeq(deleted', 1, Len(deleted)) = deleted]_vars

\* C17 witness: the second deletion of a pass: both names recorded, in order
C17_Witness ==
    /\ ~ dry_run /\ it.delete_called /\ error = None
    /\ Len(deleted) = 2 /\ deleted[2] = it.name /\ deleted[1] # it.name
    /\ \A d \in Dirs : ~ fs[d].present

\* C19: the names logged as missing by check_fastqs are exactly the local fastqs
\* that are not among the project's closed fastqs; the loop goes on after the
\* first missing one.
C19_MissingFastqsReported ==
    it.checked =>
        /\ it.missing = it.local_fastqs \ it.dx_fastqs
        /\ it.missing = it.local_fastqs \ {f.name : f \in {g \in it.listing : g.state = "closed"}}
        /\ it.fastqs_uploaded <=> it.missing = {}

\* C19 witness: two local fastqs, none closed in the project, both reported
C19_Witness ==
    /\ it.checked /\ it.local_fastqs = {"a.fastq.gz", "b.fastq.gz"}
    /\ it.dx_fastqs = {} /\ it.missing = {"a.fastq.gz", "b.fastq.gz"}

\* C19 witness: Scenario B reports b.fastq.gz and nothing else
C19_ScenarioBWitness ==
    /\ it.checked /\ it.local_fastqs = {"a.fastq.gz", "b.fastq.gz"}
    /\ it.dx_fastqs = {"a.fastq.gz"} /\ it.missing = {"b.fastq.gz"}

\* C20 (as claimed): a candidate that is not deleted has a WARNING for every
\* reason of ineligibility that holds for it.
C20_EveryReasonWarned ==
    /\ (rf.appended /\ rf.id = None) => <<rf.name, "DX PROJECT MISMATCH">> \in logged
    /\ (it.checked /\ ~ it.delete_called) =>
          /\ ~ (it.local_fastqs \subseteq it.dx_fastqs) =>
                <<it.name, "FASTQ MISMATCH">> \in logged
          /\ it.dx_logfiles # LogfileCount => <<it.name, "LOGFILE MISMATCH">> \in logged
          /\ ~ it.upload_log.exists => <<it.name, "UPLOAD LOG MISSING">> \in logged
          /\ (it.upload_log.exists /\ HasErrorMarker(it.upload_log)) =>
                <<it.name, "UPLOAD LOG CONTAINS ERRORS">> \in logged

\* C16: every candidate returned by find_runfolders gets its turn in the main
\* loop: after an iteration that did not delete its runfolder the loop goes on
\* with the next candidate, the script ends only after the last candidate, and
\* it does end unless an exception escapes.
C16_EveryCandidateEvaluated ==
    /\ [](pc = "crashed" => error # None)
    /\ [](pc = "end" => j = Len(local_runfolders) + 1)
    /\ [][(pc = "body" /\ pc' # "crashed") => (pc' = "loop" /\ j' = j + 1)]_vars
    /\ \A k \in 1 .. NDirs :
          (pc = "loop" /\ j = k /\ k <= Len(local_runfolders))
              ~> ((/\ k <= Len(local_runfolders)
                   /\ it.dir = local_runfolders[k].dir
                   /\ j = k + 1) \/ pc = "crashed")
    /\ (pc = "loop" /\ j > 1 /\ ~ it.delete_called) ~> (pc = "body" \/ pc = "end")
    /\ <>(pc = "end" \/ pc = "crashed")

\* C16 witness: a finished pass over two candidates in which the first was kept
\* and the second, evaluated after it, was deleted
C16_Witness ==
    /\ pc = "end" /\ ~ dry_run /\ error = None
    /\ Len(local_runfolders) = 2 /\ j = 3
    /\ fs[local_runfolders[1].dir].present
    /\ ~ fs[local_runfolders[2].dir].present
    /\ deleted = <<local_runfolders[2].name>>

\* C18: two dry runs one after the other on an unchanged environment: the
\* second returns the candidates of the first, decides for each what the first
\* decided, and every directory of the root is still there after it.
C18_DryRunIdempotent ==
    (dry_run /\ pass = 2) =>
        /\ \A d \in Dirs : fs[d].present
        /\ Len(verdicts) <= Len(first.verdicts)
        /\ \A k \in 1 .. Len(verdicts) : verdicts[k] = first.verdicts[k]
        /\ pc \in {"loop", "body", "end"} => local_runfolders = first.candidates
        /\ pc = "end" => verdicts = first.verdicts
        /\ pc # "crashed"

\* C18 witness: the second dry run is over; of its two candidates one was passed
\* to delete() and one was kept with a warning
C18_Witness ==
    /\ dry_run /\ pass = 2 /\ pc = "end"
    /\ Len(local_runfolders) = 2 /\ Len(verdicts) = 2
    /\ \E k \in 1 .. 2 : verdicts[k].delete_called
    /\ \E k \in 1 .. 2 : verdicts[k].checked /\ verdicts[k].warn # {}

\* the directory of the candidate called n
DirOf(n) == (CHOOSE c \in Candidates : c.name = n).dir

\* C21: find_runfolders returns the candidates oldest-modified first, and the
\* main loop takes them, and deletes them, in the order of that list.
C21_OldestModifiedFirst ==
    /\ \A a, b \in 1 .. Len(local_runfolders) :
          a < b => fs[local_runfolders[a].dir].mtime <= fs[local_runfolders[b].dir].mtime
    /\ pc = "body" => it.dir = local_runfolders[j].dir
    /\ (pc = "loop" /\ j > 1) => it.dir = local_runfolders[j - 1].dir
    /\ \A a, b \in 1 .. Len(deleted) :
          a < b => fs[DirOf(deleted[a])].mtime <= fs[DirOf(deleted[b])].mtime

\* C21 witness: two candidates were deleted, the one iterdir() yields second
\* first, because it was modified earlier
C21_Witness ==
    /\ pc = "end" /\ Len(local_runfolders) = 2 /\ Len(deleted) = 2
    /\ local_runfolders[1].dir = 2
    /\ deleted[1] = local_runfolders[1].name
    /\ fs[2].mtime < fs[1].mtime

\* the phase a call belongs to: find_runfolders or the main loop
PhaseOf(c) == IF c.call \in {"find_one_project", "describe"} THEN "find" ELSE "loop"

\* C22 as stated: every call made for one runfolder, project resolution
\* included, comes before any call made for the next
C22_OneRunfolderAtATime ==
    \A a, b, c \in 1 .. Len(calls) :
        (a < b /\ b < c /\ calls[a].dir = calls[c].dir) => calls[b].dir = calls[a].dir

\* C22: the script works on one directory at a time, in two phases:
\* find_runfolders resolves (and, for the TSO500 check, describes) the project of
\* every directory, oldest first, before the main loop starts; the main loop then
\* lists fastqs, counts logfiles and removes the tree of one candidate before it
\* queries anything for the next.
C22_TwoPhasesSequential ==
    /\ \A a, b \in 1 .. Len(calls) :
          (a < b /\ PhaseOf(calls[a]) = "loop") => PhaseOf(calls[b]) = "loop"
    /\ \A a, b, c \in 1 .. Len(calls) :
          (/\ a < b /\ b < c
           /\ PhaseOf(calls[a]) = PhaseOf(calls[c])
           /\ calls[a].dir = calls[c].dir) => calls[b].dir = calls[a].dir
    /\ \A a, b \in 1 .. Len(calls) :
          (a < b /\ PhaseOf(calls[a]) = PhaseOf(calls[b]))
              => fs[calls[a].dir].mtime <= fs[calls[b].dir].mtime
    /\ \A a, b \in 1 .. Len(calls) :
          (a < b /\ calls[a].dir = calls[b].dir /\ calls[a].call = "rmtree") => FALSE

\* C22 witness: the tree of one candidate was removed before the fastqs of the
\* next were listed, and both projects were resolved before either
C22_Witness ==
    \E a, b, c, e \in 1 .. Len(calls) :
        /\ a < b /\ b < c /\ c < e
        /\ calls[a].call = "find_one_project" /\ calls[b].call = "find_one_project"
        /\ calls[a].dir # calls[b].dir
        /\ calls[c].call = "rmtree" /\ calls[c].dir = calls[a].dir
        /\ calls[e].call = "find_fastqs" /\ calls[e].dir = calls[b].dir

C25_NoQueryWithoutProject ==
    /\ \A k \in 1 .. Len(called) :
          called[k].call \in {"describe", "find_fastqs", "count_logfiles"}
              => called[k].project # None
    /\ (pc = "loop" /\ it.dir # 0 /\ ~ it.dx_project) => called = <<>>

\* C25 witness: a candidate without a project went through the main loop, after
\* its bcl2fastq2 log was read in find_runfolders, and nothing was queried
C25_Witness ==
    /\ pc = "loop" /\ j > 1 /\ it.dir # 0
    /\ local_runfolders[j - 1].id = None
    /\ called = <<>>

\* C23: check_upload_log is false exactly when some line of the upload log
\* contains "- ERROR -" somewhere in it; a kept runfolder whose log has such a
\* line is reported with UPLOAD LOG CONTAINS ERRORS.
C23_ErrorSubstringFailsLog ==
    (it.checked /\ it.upload_log.exists)
        => /\ check_upload_log(it.upload_log) <=> ~ HasErrorMarker(it.upload_log)
           /\ ~ it.delete_called
                  => (<<it.name, "UPLOAD LOG CONTAINS ERRORS">> \in logged
                          <=> HasErrorMarker(it.upload_log))

\* C27: find_runfolders returns a directory only if it is a subdirectory of
\* the root whose name starts with six digits, has RTAComplete.txt, is at least
\* min_age days old and either passes TSO500_check or holds a fastq file; a
\* complete, old-enough runfolder that is not TSO500 and holds no fastq is
\* neither returned nor deleted.
C27_CandidateConditions ==
    /\ rf.appended
          => /\ rf.dir \in Dirs
             /\ MatchesSixDigits(rf.name)
             /\ rf.RTA_complete_exists
             /\ rf.age >= MinAge
             /\ rf.tso \/ (fs[rf.dir].listed /\ fs[rf.dir].fastqs # {})
    /\ (/\ rf.tso_called /\ error = None /\ ~ rf.tso
        /\ fs[rf.dir].listed /\ fs[rf.dir].fastqs = {}) => ~ rf.appended
    /\ \A c \in Candidates : MatchesSixDigits(c.name) /\ c.RTA_complete_exists
    /\ (it.delete_called /\ ~ it.tso) => it.local_fastqs # {}

\* C27 witness: a complete, old-enough runfolder with a project, not TSO500 and
\* without fastq files, was looked at and not returned
C27_Witness ==
    /\ pc = "find" /\ rf.tso_called /\ error = None
    /\ rf.RTA_complete_exists /\ rf.age >= MinAge /\ rf.id # None
    /\ ~ rf.tso /\ fs[rf.dir].listed /\ fs[rf.dir].fastqs = {}
    /\ ~ rf.appended

\* C28: a bcl2fastq2_output.log that exists and is empty makes TSO500_check
\* answer "not TSO500" without raising: find_runfolders goes on.
C28_EmptyLogIsNotTSO ==
    (rf.tso_called /\ rf.bcl.exists /\ rf.bcl.lines = <<>>)
        => (error = None /\ pc = "find" /\ ~ rf.tso)

\* C26: whatever another process adds to a runfolder while the script runs, when
\* the tree of a runfolder is removed every fastq file in it at that moment has a
\* closed copy in the project.
C26_NoFastqLostAtRemoval ==
    [][\A d \in Dirs :
          (fs[d].present /\ ~ fs'[d].present)
              => env[d].fastqs \subseteq dx_find_fastqs(env[d].listing)]_vars

\* the upload agent commands issued for a folder, in order
CommandsFor(path) == SelectSeq(commands, LAMBDA c : c.path = path)

\* the files of a sequence of commands, in order
RECURSIVE FilesOf(_)
FilesOf(cs) == IF cs = <<>> THEN <<>> ELSE Head(cs).files \o FilesOf(Tail(cs))

\* once call_upload_agent has returned, a folder with n >= 1 files to upload got
\* ceil(n / 500) commands, none of them empty, that split its list in order
Chunked ==
    /\ \A k \in 1 .. Len(commands) :
          Len(commands[k].files) >= 1 /\ Len(commands[k].files) <= ChunkSize
    /\ ua_pc = "done"
          => \A k \in 1 .. Len(file_dict) :
                LET files == file_dict[k].files
                    n == Len(files)
                    cs == CommandsFor(file_dict[k].path)
                IN  n >= 1 => /\ Len(cs) * ChunkSize >= n
                              /\ (Len(cs) - 1) * ChunkSize < n
                              /\ FilesOf(cs) = files

C30_IgnoredNeverUploaded ==
    \A k \in 1 .. Len(commands) :
        /\ ~ any_pattern(ignore, commands[k].path)
        /\ \A f \in 1 .. Len(commands[k].files) :
              ~ any_pattern(ignore, commands[k].files[f])

TypeOK ==
    /\ dry_run \in BOOLEAN
    /\ pc \in {"start", "find", "loop", "body", "delete", "end", "crashed"}
    /\ ua_pc \in {"idle", "walk", "upload", "while", "done"}
    /\ i \in 1 .. NDirs + 1
    /\ j \in 1 .. NDirs + 1
    /\ Len(local_runfolders) <= NDirs
    /\ Len(deleted) <= NDirs

====
